---- MODULE Spec2Model ----
(***************************************************************************)
(* CHIP-8 interpreter (src/src/chip8.cpp) driven by the host loop of       *)
(* src/src/main.cpp.  One action per opcode handler of                     *)
(* Chip8::emulateCycle; each action is the whole cycle: fetch, decode,     *)
(* execute and the trailing timer update.                                  *)
(***************************************************************************)
EXTENDS Integers, Sequences, FiniteSets, TLC

\* ------------------------------------------------------------------ sizes
MemSize == 4096
ProgStart == 512
MaxRomBytes == 3584
StackSize == 16
GfxWidth == 64
GfxSize == 2048
FontBytes == 80
SPRITE_LENGTH == 5
NumRegs == 16
NumKeys == 16

\* ------------------------------------------------------------ model bounds
\* how many of the sample operand bytes the generated ROMs use
NumByteVals == 4
\* how many keypad keys the host's event loop presses and releases
NumHostKeys == 2
\* how many times the loading caller of SpecLoad calls loadGame again
MaxLoads == 2

ByteSamples == <<0, 1, 255, 128, 15, 16, 7, 100>>
KeySamples == <<5, 0, 15, 9, 1, 2>>
ByteVals == {ByteSamples[i] : i \in 1..NumByteVals}
HostKeys == {KeySamples[i] : i \in 1..NumHostKeys}

\* ------------------------------------------------------------- arithmetic
Min(a, b) == IF a < b THEN a ELSE b

\* uint8_t truncation of an int result stored into V[], memory[] or a timer
U8(v) == v % 256

RECURSIVE And8(_, _, _)
And8(a, b, n) ==
    IF n = 0 THEN 0
    ELSE (IF a % 2 = 1 /\ b % 2 = 1 THEN 1 ELSE 0) + 2 * And8(a \div 2, b \div 2, n - 1)

RECURSIVE Or8(_, _, _)
Or8(a, b, n) ==
    IF n = 0 THEN 0
    ELSE (IF a % 2 = 1 \/ b % 2 = 1 THEN 1 ELSE 0) + 2 * Or8(a \div 2, b \div 2, n - 1)

RECURSIVE Xor8(_, _, _)
Xor8(a, b, n) ==
    IF n = 0 THEN 0
    ELSE (IF (a % 2) # (b % 2) THEN 1 ELSE 0) + 2 * Xor8(a \div 2, b \div 2, n - 1)

\* the 16 five-byte hexadecimal glyphs
CHIP8_FONTSET ==
    << 240, 144, 144, 144, 240,   32,  96,  32,  32, 112,
       240,  16, 240, 128, 240,  240,  16, 240,  16, 240,
       144, 144, 240,  16,  16,  240, 128, 240,  16, 240,
       240, 128, 240, 144, 240,  240,  16,  32,  64,  64,
       240, 144, 240, 144, 240,  240, 144, 240,  16, 240,
       240, 144, 240, 144, 144,  224, 144, 224, 144, 224,
       240, 128, 128, 128, 240,  224, 144, 144, 144, 224,
       240, 128, 240, 128, 240,  240, 128, 240, 128, 128 >>

\* ------------------------------------------------------------------ state
VARIABLES
    pc, opcode, I, sp, stack, V, memory, gfx, key,
    delay_timer, sound_timer, drawFlag,
    hostPc,      \* where main() is: "load", "cycle", "frame", "cleanup", "exit"
    lastError,   \* exception thrown by the last loadGame/emulateCycle, or "none"
    callTrace,   \* history: <<address of the CALL, sp before it>> of every open call
    lastDraw,    \* history: the DXYN executed by the previous cycle, or NoDraw
    romFile,     \* the bytes of the file the last loadGame opened, or NoFile
    loads        \* history: how many times the loading caller asked to load again

machine == <<pc, opcode, I, sp, stack, V, memory, gfx, key,
             delay_timer, sound_timer, drawFlag>>
vars == <<pc, opcode, I, sp, stack, V, memory, gfx, key,
          delay_timer, sound_timer, drawFlag, hostPc, lastError, callTrace, lastDraw,
          romFile, loads>>

NoDraw == [op |-> 0]
\* no file has been opened
NoFile == <<-1>>

\* Chip8::initialize, run by the constructor
Init ==
    /\ pc = ProgStart
    /\ opcode = 0
    /\ I = 0
    /\ sp = 0
    /\ gfx = [i \in 0..(GfxSize - 1) |-> 0]
    /\ stack = [i \in 0..(StackSize - 1) |-> 0]
    /\ V = [i \in 0..(NumRegs - 1) |-> 0]
    /\ memory = [i \in 0..(MemSize - 1) |-> IF i < FontBytes THEN CHIP8_FONTSET[i + 1] ELSE 0]
    /\ key = [i \in 0..(NumKeys - 1) |-> 0]
    /\ delay_timer = 0
    /\ sound_timer = 0
    /\ drawFlag = FALSE
    /\ hostPc = "load"
    /\ lastError = "none"
    /\ callTrace = <<>>
    /\ lastDraw = NoDraw
    /\ romFile = NoFile
    /\ loads = 0

\* ------------------------------------------------------- fetch and decode
\* opcode = (memory[pc] << 8) | memory[pc + 1]
Fetch == (memory[pc] * 256) + memory[pc + 1]
FetchInBounds == pc + 1 < MemSize
\* opcode & 0xF000, as the family nibble
Family == Fetch \div 4096
X == (Fetch % 4096) \div 256
Y == (Fetch % 256) \div 16
KK == Fetch % 256
NNN == Fetch % 4096
LowNibble == Fetch % 16

\* the cycle has fetched a word of family fam
Decoded(fam) == hostPc = "cycle" /\ FetchInBounds /\ Family = fam

\* the fields of the Chip8 object an instruction handler works on
Cur == [pc |-> pc, I |-> I, sp |-> sp, stack |-> stack, V |-> V, memory |-> memory,
        gfx |-> gfx, dt |-> delay_timer, st |-> sound_timer, drawFlag |-> drawFlag]

Put(s) ==
    /\ pc' = s.pc
    /\ I' = s.I
    /\ sp' = s.sp
    /\ stack' = s.stack
    /\ V' = s.V
    /\ memory' = s.memory
    /\ gfx' = s.gfx
    /\ drawFlag' = s.drawFlag
    /\ opcode' = Fetch
    /\ key' = key

\* "Update timers" at the end of emulateCycle
TickNoFloor(t) == U8(t - 1)
Tick(t) == IF t > 0 THEN t - 1 ELSE t

\* the handler breaks out of the switch: timers are updated and the cycle returns
Retire(s) ==
    /\ Put(s)
    /\ delay_timer' = Tick(s.dt)
    /\ sound_timer' = Tick(s.st)
    /\ hostPc' = "frame"
    /\ lastError' = "none"

\* the handler returns from emulateCycle before the timer update
ReturnEarly(s) ==
    /\ Put(s)
    /\ delay_timer' = s.dt
    /\ sound_timer' = s.st
    /\ hostPc' = "frame"
    /\ lastError' = "none"

\* the handler throws with the object in state s; main() reports it and leaves the loop
Abort(s, kind) ==
    /\ Put(s)
    /\ delay_timer' = s.dt
    /\ sound_timer' = s.st
    /\ hostPc' = "cleanup"
    /\ lastError' = kind
    /\ UNCHANGED <<callTrace, lastDraw, romFile, loads>>

Hist(ct, ld) == callTrace' = ct /\ lastDraw' = ld /\ UNCHANGED <<romFile, loads>>

\* ---------------------------------------------------------------- loading
LoadGameOpenFails ==
    /\ hostPc = "load"
    /\ hostPc' = "exit"
    /\ lastError' = "runtime_error"
    /\ romFile' = NoFile
    /\ UNCHANGED <<machine, callTrace, lastDraw, loads>>

ReadRomAdding(mem, rom) ==
    LET bytesRead == Min(Len(rom), MaxRomBytes)
    IN  [i \in 0..(MemSize - 1) |->
            IF i >= ProgStart /\ i < ProgStart + bytesRead
            THEN (mem[i] + rom[i - ProgStart + 1]) % 256
            ELSE mem[i]]

\* fread(&memory[0x200], 1, 4096 - 0x200, file)
ReadRom(mem, rom) ==
    LET bytesRead == Min(Len(rom), MaxRomBytes)
    IN  [i \in 0..(MemSize - 1) |->
            IF i >= ProgStart /\ i < ProgStart + bytesRead THEN rom[i - ProgStart + 1]
            ELSE mem[i]]

LoadGameRom(rom) ==
    /\ hostPc = "load"
    /\ memory' = ReadRom(memory, rom)
    /\ IF Min(Len(rom), MaxRomBytes) = 0
       THEN hostPc' = "exit" /\ lastError' = "runtime_error"
       ELSE hostPc' = "cycle" /\ lastError' = "none"
    /\ romFile' = rom
    /\ UNCHANGED <<pc, opcode, I, sp, stack, V, gfx, key, delay_timer, sound_timer,
                   drawFlag, callTrace, lastDraw, loads>>

\* ------------------------------------------------------------ the handlers
FetchFault ==
    /\ hostPc = "cycle"
    /\ ~FetchInBounds
    /\ hostPc' = "cleanup"
    /\ lastError' = "out_of_range"
    /\ UNCHANGED <<machine, callTrace, lastDraw, romFile, loads>>

\* case 0x0000 of the inner switch (opcode & 0x000F)
Op_00E0 ==
    /\ Decoded(0) /\ LowNibble = 0
    /\ Retire([Cur EXCEPT !.gfx = [i \in 0..(GfxSize - 1) |-> 0], !.pc = pc + 2])
    /\ Hist(callTrace, NoDraw)

RetTargetNoAdvance(st, s) == st[s - 1]
RetTarget(st, s) == st[s - 1] + 2

Op_00EE ==
    /\ Decoded(0) /\ LowNibble = 14
    /\ IF sp = 0
       THEN Abort(Cur, "underflow_error")
       ELSE /\ Retire([Cur EXCEPT !.sp = sp - 1, !.pc = RetTarget(stack, sp)])
            /\ Hist(SubSeq(callTrace, 1, Len(callTrace) - 1), NoDraw)

Op_0Unknown ==
    /\ Decoded(0) /\ LowNibble \notin {0, 14}
    /\ Abort(Cur, "runtime_error")

Op_1NNN ==
    /\ Decoded(1)
    /\ IF NNN >= MemSize
       THEN Abort(Cur, "out_of_range")
       ELSE Retire([Cur EXCEPT !.pc = NNN]) /\ Hist(callTrace, NoDraw)

StackFullOffByOne(s) == s > StackSize
StackFull(s) == s >= StackSize

Op_2NNN ==
    /\ Decoded(2)
    /\ IF StackFull(sp)
       THEN Abort(Cur, "overflow_error")
       ELSE LET pushed == [Cur EXCEPT !.stack = [stack EXCEPT ![sp] = pc], !.sp = sp + 1]
            IN  IF NNN >= MemSize
                THEN Abort(pushed, "out_of_range")
                ELSE /\ Retire([pushed EXCEPT !.pc = NNN])
                     /\ Hist(Append(callTrace, <<pc, sp>>), NoDraw)

Skip(cond) == Retire([Cur EXCEPT !.pc = pc + (IF cond THEN 4 ELSE 2)]) /\ Hist(callTrace, NoDraw)

Op_3XKK == Decoded(3) /\ Skip(V[X] = KK)

Op_4XKK == Decoded(4) /\ Skip(V[X] # KK)

Op_5XY0 ==
    /\ Decoded(5)
    /\ IF LowNibble # 0 THEN Abort(Cur, "runtime_error") ELSE Skip(V[X] = V[Y])

Op_9XY0 ==
    /\ Decoded(9)
    /\ IF LowNibble # 0 THEN Abort(Cur, "runtime_error") ELSE Skip(V[X] # V[Y])

\* a handler that only rewrites the registers and steps over the instruction
SetRegs(v) == Retire([Cur EXCEPT !.V = v, !.pc = pc + 2]) /\ Hist(callTrace, NoDraw)

Op_6XKK == Decoded(6) /\ SetRegs([V EXCEPT ![X] = KK])

Op_7XKK == Decoded(7) /\ SetRegs([V EXCEPT ![X] = U8(V[X] + KK)])

\* ------------------------------------------------------------ 8XY_ family
\* each handler is the statements of its case in order: V[0xF] is written first
\* and the second statement reads V[] again
Alu8XY1(v, x, y) == [v EXCEPT ![x] = Or8(v[x], v[y], 8)]
Alu8XY2(v, x, y) == [v EXCEPT ![x] = And8(v[x], v[y], 8)]
Alu8XY3(v, x, y) == [v EXCEPT ![x] = Xor8(v[x], v[y], 8)]

Alu8XY4(v, x, y) ==
    LET flagged == [v EXCEPT ![15] = IF v[y] > 255 - v[x] THEN 1 ELSE 0]
    IN  [flagged EXCEPT ![x] = U8(flagged[x] + flagged[y])]

Alu8XY5(v, x, y) ==
    LET flagged == [v EXCEPT ![15] = IF v[x] >= v[y] THEN 1 ELSE 0]
    IN  [flagged EXCEPT ![x] = U8(flagged[x] - flagged[y])]

Alu8XY6(v, x, y) ==
    LET lsb == v[x] % 2
        flagged == [v EXCEPT ![15] = IF lsb # 0 THEN 1 ELSE 0]
    IN  [flagged EXCEPT ![x] = flagged[x] \div 2]

Alu8XY7(v, x, y) ==
    LET flagged == [v EXCEPT ![15] = IF v[y] >= v[x] THEN 1 ELSE 0]
    IN  [flagged EXCEPT ![x] = U8(flagged[y] - flagged[x])]

Alu8XYE(v, x, y) ==
    LET msb == (v[x] \div 128) % 2
        flagged == [v EXCEPT ![15] = IF msb # 0 THEN 1 ELSE 0]
    IN  [flagged EXCEPT ![x] = U8(flagged[x] * 2)]

Op_8XY0 == Decoded(8) /\ LowNibble = 0 /\ SetRegs([V EXCEPT ![X] = V[Y]])

Op_8XY1 == Decoded(8) /\ LowNibble = 1 /\ SetRegs(Alu8XY1(V, X, Y))

Op_8XY2 == Decoded(8) /\ LowNibble = 2 /\ SetRegs(Alu8XY2(V, X, Y))

Op_8XY3 == Decoded(8) /\ LowNibble = 3 /\ SetRegs(Alu8XY3(V, X, Y))

Op_8XY4 == Decoded(8) /\ LowNibble = 4 /\ SetRegs(Alu8XY4(V, X, Y))

Op_8XY5 == Decoded(8) /\ LowNibble = 5 /\ SetRegs(Alu8XY5(V, X, Y))

Op_8XY6 == Decoded(8) /\ LowNibble = 6 /\ SetRegs(Alu8XY6(V, X, Y))

Op_8XY7 == Decoded(8) /\ LowNibble = 7 /\ SetRegs(Alu8XY7(V, X, Y))

Op_8XYE == Decoded(8) /\ LowNibble = 14 /\ SetRegs(Alu8XYE(V, X, Y))

Op_8Unknown ==
    /\ Decoded(8) /\ LowNibble \notin {0, 1, 2, 3, 4, 5, 6, 7, 14}
    /\ Abort(Cur, "runtime_error")

\* ------------------------------------------------------------- A, B, C
Op_ANNN ==
    /\ Decoded(10)
    /\ Retire([Cur EXCEPT !.I = NNN, !.pc = pc + 2])
    /\ Hist(callTrace, NoDraw)

Op_BNNN ==
    /\ Decoded(11)
    /\ Retire([Cur EXCEPT !.pc = NNN + V[0]])
    /\ Hist(callTrace, NoDraw)

\* (rand() % 256) & kk
RandomAnd(kk) == {And8(r, kk, 8) : r \in 0..255}

Op_CXKK ==
    /\ Decoded(12)
    /\ \E r \in RandomAnd(KK) : SetRegs([V EXCEPT ![X] = r])

\* ------------------------------------------------------------------ DXYN
SpriteBit(pixel, xline) == (pixel \div (2 ^ (7 - xline))) % 2

\* gfxIndex = xpos + xline + ((ypos + yline) * 64)
GfxIndex(xpos, ypos, yline, xline) == xpos + xline + ((ypos + yline) * GfxWidth)

\* the cells the two nested loops reach with a set sprite bit and an index the
\* bounds test lets through; xline < 8 < 64, so no cell is reached twice
DrawnCells(mem, base, height, xpos, ypos) ==
    {GfxIndex(xpos, ypos, p[1], p[2]) :
        p \in {q \in (0..(height - 1)) \X (0..7) :
                  /\ GfxIndex(xpos, ypos, q[1], q[2]) < GfxSize
                  /\ SpriteBit(mem[base + q[1]], q[2]) # 0}}

\* gfx[gfxIndex] ^= 1
ToggleAsSet(cell) == 1
Toggle(cell) == Xor8(cell, 1, 8)

\* the framebuffer and the collision flag the loops leave behind
Draw(g, cells) ==
    [gfx |-> [i \in 0..(GfxSize - 1) |-> IF i \in cells THEN Toggle(g[i]) ELSE g[i]],
     vf  |-> IF \E i \in cells : g[i] = 1 THEN 1 ELSE 0]

SpriteBytes(mem, base, height) == [r \in 0..(height - 1) |-> mem[base + r]]

DrawFits(i, height) == i + height <= MemSize

\* what the registers hold when the bounds check of DXYN throws
DrawAbortRegsFlagCleared == [V EXCEPT ![15] = 0]
DrawAbortRegs == V

Op_DXYN ==
    /\ Decoded(13)
    /\ LET xpos == V[X]
           ypos == V[Y]
           height == LowNibble
       IN  IF ~DrawFits(I, height)
           THEN Abort([Cur EXCEPT !.V = DrawAbortRegs], "out_of_range")
           ELSE LET d == Draw(gfx, DrawnCells(memory, I, height, xpos, ypos))
                IN  /\ Retire([Cur EXCEPT !.V = [V EXCEPT ![15] = d.vf], !.gfx = d.gfx,
                                          !.drawFlag = TRUE, !.pc = pc + 2])
                    /\ Hist(callTrace,
                            [op |-> Fetch, I |-> I, xpos |-> xpos, ypos |-> ypos,
                             sprite |-> SpriteBytes(memory, I, height), gfx |-> gfx])

\* ------------------------------------------------------------ EX__ family
\* key[V[x]]: V[x] is not range-checked, so an index past the 16 entries reads
\* whatever byte lies behind the array (zero or nonzero)
KeyRead(i) == IF i < NumKeys THEN {key[i]} ELSE {0, 1}

Op_EX9E ==
    /\ Decoded(14) /\ KK = 158
    /\ \E k \in KeyRead(V[X]) : Skip(k # 0)

Op_EXA1 ==
    /\ Decoded(14) /\ KK = 161
    /\ \E k \in KeyRead(V[X]) : Skip(k = 0)

\* default: printf and break; the timers are still updated
Op_EUnknown ==
    /\ Decoded(14) /\ KK \notin {158, 161}
    /\ Retire(Cur)
    /\ Hist(callTrace, NoDraw)

\* ------------------------------------------------------------ FX__ family
Op_FX07 == Decoded(15) /\ KK = 7 /\ SetRegs([V EXCEPT ![X] = delay_timer])

PressedKeys == {i \in 0..(NumKeys - 1) : key[i] # 0}
HighestPressed == CHOOSE i \in PressedKeys : \A j \in PressedKeys : j <= i
\* the scan for (i = 0; i < 16; ++i) stops at the first pressed key
FirstPressed == CHOOSE i \in PressedKeys : \A j \in PressedKeys : i <= j

Op_FX0A ==
    /\ Decoded(15) /\ KK = 10
    /\ IF PressedKeys = {}
       THEN ReturnEarly(Cur)
       ELSE Retire([Cur EXCEPT !.V = [V EXCEPT ![X] = FirstPressed], !.pc = pc + 2])
    /\ Hist(callTrace, NoDraw)

Op_FX15 ==
    /\ Decoded(15) /\ KK = 21
    /\ Retire([Cur EXCEPT !.dt = V[X], !.pc = pc + 2])
    /\ Hist(callTrace, NoDraw)

Op_FX18 ==
    /\ Decoded(15) /\ KK = 24
    /\ Retire([Cur EXCEPT !.st = V[X], !.pc = pc + 2])
    /\ Hist(callTrace, NoDraw)

Op_FX1E_BoundOffByOne ==
    /\ Decoded(15) /\ KK = 30
    /\ IF I + V[X] > MemSize
       THEN Abort(Cur, "out_of_range")
       ELSE Retire([Cur EXCEPT !.I = I + V[X], !.pc = pc + 2]) /\ Hist(callTrace, NoDraw)

Op_FX1E ==
    /\ Decoded(15) /\ KK = 30
    /\ IF I + V[X] >= MemSize
       THEN Abort(Cur, "out_of_range")
       ELSE Retire([Cur EXCEPT !.I = I + V[X], !.pc = pc + 2]) /\ Hist(callTrace, NoDraw)

Op_FX29 ==
    /\ Decoded(15) /\ KK = 41
    /\ IF V[X] > 15
       THEN Abort(Cur, "out_of_range")
       ELSE Retire([Cur EXCEPT !.I = V[X] * SPRITE_LENGTH, !.pc = pc + 2])
            /\ Hist(callTrace, NoDraw)

StoreBcdNoMod(mem, i, v) ==
    [mem EXCEPT ![i] = v \div 100, ![i + 1] = v \div 10, ![i + 2] = v % 10]

StoreBcd(mem, i, v) ==
    [mem EXCEPT ![i] = v \div 100, ![i + 1] = (v \div 10) % 10, ![i + 2] = v % 10]

Op_FX33 ==
    /\ Decoded(15) /\ KK = 51
    /\ IF I + 2 >= MemSize
       THEN Abort(Cur, "out_of_range")
       ELSE Retire([Cur EXCEPT !.memory = StoreBcd(memory, I, V[X]), !.pc = pc + 2])
            /\ Hist(callTrace, NoDraw)

StoreRegs(mem, i, x) ==
    [a \in 0..(MemSize - 1) |-> IF a >= i /\ a <= i + x THEN V[a - i] ELSE mem[a]]

Op_FX55_BoundOffByOne ==
    /\ Decoded(15) /\ KK = 85
    /\ IF I + X > MemSize
       THEN Abort(Cur, "out_of_range")
       ELSE Retire([Cur EXCEPT !.memory = StoreRegs(memory, I, X), !.pc = pc + 2])
            /\ Hist(callTrace, NoDraw)

Op_FX55 ==
    /\ Decoded(15) /\ KK = 85
    /\ IF I + X >= MemSize
       THEN Abort(Cur, "out_of_range")
       ELSE Retire([Cur EXCEPT !.memory = StoreRegs(memory, I, X), !.pc = pc + 2])
            /\ Hist(callTrace, NoDraw)

LoadRegs(v, i, x) == [r \in 0..(NumRegs - 1) |-> IF r <= x THEN memory[i + r] ELSE v[r]]

Op_FX65 ==
    /\ Decoded(15) /\ KK = 101
    /\ IF I + X >= MemSize
       THEN Abort(Cur, "out_of_range")
       ELSE SetRegs(LoadRegs(V, I, X))

\* default: printf and break; the timers are still updated
Op_FUnknown ==
    /\ Decoded(15) /\ KK \notin {7, 10, 21, 24, 30, 41, 51, 85, 101}
    /\ Retire(Cur)
    /\ Hist(callTrace, NoDraw)

\* --------------------------------------------------------------- the host
\* the rest of one iteration of main()'s loop: the SDL events are polled (any of
\* the host's keys may end up pressed or released) and a dirty frame is presented
HostFrame(pressed) ==
    /\ hostPc = "frame"
    /\ key' = [i \in 0..(NumKeys - 1) |-> IF i \in pressed THEN 1 ELSE 0]
    /\ drawFlag' = FALSE
    /\ hostPc' = "cycle"
    /\ UNCHANGED <<pc, opcode, I, sp, stack, V, memory, gfx, delay_timer, sound_timer,
                   lastError, callTrace, lastDraw, romFile, loads>>

\* F1 among the polled events: goto load, out of the loop and back to loadGame(argv[1]);
\* the frame is not presented and the object is not re-initialized
HostReload ==
    /\ hostPc = "frame"
    /\ hostPc' = "load"
    /\ UNCHANGED <<machine, lastError, callTrace, lastDraw, romFile, loads>>

\* ------------------------------------------------------------ ROM images
\* instruction words, assembled from their nibbles
W(f, x, y, n) == (f * 4096) + (x * 256) + (y * 16) + n
WK(f, x, kk) == (f * 4096) + (x * 256) + kk
WA(f, nnn) == (f * 4096) + nnn
\* address of the k-th word of the program
At(k) == ProgStart + (2 * k)
\* 0x0001, an unknown 0x00XX word: the cycle throws and the run ends
Stop == WA(0, 1)

\* the file's bytes, big-endian words
RomOf(ws) == [i \in 1..(2 * Len(ws)) |->
                 IF i % 2 = 1 THEN ws[(i + 1) \div 2] \div 256 ELSE ws[i \div 2] % 256]

AddSubRoms ==
    {<<WK(6, x, a), WK(6, y, b), W(8, x, y, n), Stop>> :
        x \in {0, 14}, y \in {0, 1, 15}, a \in ByteVals, b \in ByteVals, n \in {4, 5}}

AluRoms ==
    {<<WK(6, 1, a), WK(6, y, b), W(8, 1, y, n), Stop>> :
        y \in {2}, a \in ByteVals, b \in ByteVals, n \in {0, 1, 2, 3, 6, 7, 8, 14}}

SkipRoms ==
    {<<WK(6, 1, a), WK(6, 2, b), op, Stop, Stop>> :
        a \in ByteVals, b \in ByteVals,
        op \in {WK(3, 1, 1), WK(4, 1, 1), W(5, 1, 2, 0), W(9, 1, 2, 0), W(5, 1, 2, 1), W(9, 1, 2, 1)}}

AddImmRoms == {<<WK(6, 1, a), WK(7, 1, b), Stop>> : a \in ByteVals, b \in ByteVals}

KeyRoms ==
    {<<WK(6, 1, v), WK(14, 1, sub), Stop, Stop>> :
        v \in ByteVals \cup {5, 16}, sub \in {158, 161, 0}}

WaitRoms ==
    { <<WK(6, 1, 3), WK(15, 1, 21), WK(15, 1, 24), WK(15, 2, 10), WK(15, 3, 7), Stop>>,
      <<WK(15, 0, 10), WA(1, At(0))>> }

TimerRoms ==
    {<<WK(6, 1, a), WK(15, 1, 21), WK(15, 1, 24), WK(15, 2, 7), WK(15, 2, 255), Stop>> :
        a \in ByteVals}

IndexRoms ==
    {<<WA(10, nnn), WK(6, 1, v), WK(15, 1, 30), Stop>> :
        nnn \in {0, 3841, 4095}, v \in ByteVals}
    \cup {<<WK(6, 1, v), WK(15, 1, 41), Stop>> : v \in ByteVals \cup {15, 16}}

BcdRoms ==
    {<<WA(10, nnn), WK(6, 1, v), WK(15, 1, 51), Stop>> :
        nnn \in {768, 4093, 4094, 78}, v \in ByteVals \cup {123}}

RegsRoms ==
    {<<WK(6, 0, 7), WK(6, 1, 9), WA(10, nnn), WK(15, x, 85), WK(6, 0, 0), WK(15, x, 101), Stop>> :
        nnn \in {768, 4080, 4095, 79}, x \in {0, 1, 15}}

DrawRoms ==
    {<<WA(10, nnn), WK(6, 1, cx), WK(6, 2, cy),
       W(13, 1, 2, n), W(13, 1, 2, n), W(13, 1, 2, n), Stop>> :
        nnn \in {0, 512, 4092}, cx \in {0, 60, 255}, cy \in {0, 30, 255}, n \in {0, 5, 15}}
    \cup { <<WK(6, 15, 1), WA(10, 4095), W(13, 0, 0, 5)>>,
           <<WA(10, 4091), W(13, 0, 0, 5), Stop>>,
           <<WA(10, 0), W(13, 0, 0, 5), WA(10, 5), W(13, 0, 0, 5), W(13, 0, 0, 5), WA(0, 224), Stop>>,
           <<WA(10, 0), W(13, 15, 0, 5), W(13, 15, 0, 5), Stop>> }

JumpRoms ==
    { <<WA(1, 515), 18, 768>>,
      <<WA(1, 4095)>>,
      <<WA(1, 510)>>,
      <<WK(6, 0, 255), WA(11, 4095)>>,
      <<WK(6, 0, 1), WA(11, At(2)), 0, 256>>,
      <<WK(12, 1, 3), Stop>>,
      <<WK(14, 0, 0)>>, <<WK(15, 0, 255)>>, <<288, Stop>>, <<302>> }

\* sixteen subroutines, each calling the next and returning to its caller
NestRom == [k \in 1..33 |->
               IF k = 2 THEN Stop
               ELSE IF k = 33 THEN WA(0, 238)
               ELSE IF k % 2 = 1 THEN WA(2, At(k + 1))
               ELSE WA(0, 238)]

CallRoms ==
    { <<WA(2, At(0))>>,
      <<WA(2, At(1)), 302>>,
      <<WA(0, 238)>>,
      <<WA(2, At(3)), WA(2, At(5)), Stop, WA(2, At(5)), WA(0, 238), WA(0, 238)>>,
      NestRom }

\* a file that fills the program area: JP 0xFFE, and SE V0,0 in the last two bytes
FullRom == [i \in 1..MaxRomBytes |->
               IF i = 1 THEN 31 ELSE IF i = 2 THEN 254 ELSE IF i = MaxRomBytes - 1 THEN 48 ELSE 0]

\* a file one byte longer than the program area
LongRom == [i \in 1..(MaxRomBytes + 1) |-> IF i = MaxRomBytes + 1 THEN 170 ELSE FullRom[i]]

Roms ==
    {RomOf(ws) : ws \in AddSubRoms \cup AluRoms \cup SkipRoms \cup AddImmRoms \cup KeyRoms
                        \cup WaitRoms \cup TimerRoms \cup IndexRoms \cup BcdRoms \cup RegsRoms
                        \cup DrawRoms \cup JumpRoms \cup CallRoms}
    \cup {FullRom, LongRom, <<>>}

\* argv[1] names one file: the first loadGame may find any of the files, a reload
\* finds the same bytes again
FilesOnDisk == IF romFile = NoFile THEN Roms ELSE {romFile}

\* ------------------------------------------------------------ specification
Next ==
    \/ LoadGameOpenFails
    \/ \E rom \in FilesOnDisk : LoadGameRom(rom)
    \/ FetchFault
    \/ Op_00E0
    \/ Op_00EE
    \/ Op_0Unknown
    \/ Op_1NNN
    \/ Op_2NNN
    \/ Op_3XKK
    \/ Op_4XKK
    \/ Op_5XY0
    \/ Op_6XKK
    \/ Op_7XKK
    \/ Op_8XY0
    \/ Op_8XY1
    \/ Op_8XY2
    \/ Op_8XY3
    \/ Op_8XY4
    \/ Op_8XY5
    \/ Op_8XY6
    \/ Op_8XY7
    \/ Op_8XYE
    \/ Op_8Unknown
    \/ Op_9XY0
    \/ Op_ANNN
    \/ Op_BNNN
    \/ Op_CXKK
    \/ Op_DXYN
    \/ Op_EX9E
    \/ Op_EXA1
    \/ Op_EUnknown
    \/ Op_FX07
    \/ Op_FX0A
    \/ Op_FX15
    \/ Op_FX18
    \/ Op_FX1E
    \/ Op_FX29
    \/ Op_FX33
    \/ Op_FX55
    \/ Op_FX65
    \/ Op_FUnknown
    \/ \E pressed \in SUBSET HostKeys : HostFrame(pressed)
    \/ HostReload

Spec == Init /\ [][Next]_vars

\* a caller that loads right after construction and then asks to load again, up to
\* MaxLoads times, with no cycle in between
LoadAgain ==
    /\ hostPc = "cycle"
    /\ loads < MaxLoads
    /\ hostPc' = "load"
    /\ loads' = loads + 1
    /\ UNCHANGED <<machine, lastError, callTrace, lastDraw, romFile>>

LoadNext ==
    \/ LoadGameOpenFails
    \/ \E rom \in FilesOnDisk : LoadGameRom(rom)
    \/ LoadAgain

SpecLoad == Init /\ [][LoadNext]_vars

\* ------------------------------------------------------------- properties
\* an emulateCycle call is the step from "cycle" to the frame (it returned) or to
\* cleanup (it threw)
CycleRan == hostPc = "cycle" /\ hostPc' # "cycle"
CycleThrew == CycleRan /\ hostPc' = "cleanup"
CycleReturned == CycleRan /\ hostPc' = "frame"
Executes(fam) == Decoded(fam) /\ CycleRan

\* C1 (as stated): whenever emulateCycle ends in an error, every part of the machine
\* state, the current-opcode field included, is equal to its value before the call.
C1_ErrorLeavesAllState ==
    [][CycleThrew => UNCHANGED <<pc, I, sp, stack, V, memory, delay_timer, sound_timer,
                                 gfx, drawFlag, key, opcode>>]_vars

\* C1 (amended): whenever emulateCycle ends in an error, PC, I, the stack and stack
\* pointer, the registers, memory, both timers, the framebuffer, the dirty flag and the
\* keys are equal to their values before the call; only the opcode field holds the
\* word that was fetched.
C1_ErrorLeavesStateButOpcode ==
    [][CycleThrew =>
          /\ UNCHANGED <<pc, I, sp, stack, V, memory, delay_timer, sound_timer,
                         gfx, drawFlag, key>>
          /\ (FetchInBounds => opcode' = Fetch)
          /\ (~FetchInBounds => opcode' = opcode)]_vars

\* C1 witness: a DXYN whose sprite runs past the end of memory has thrown while VF held 1
C1_Witness ==
    /\ hostPc = "cleanup"
    /\ lastError = "out_of_range"
    /\ opcode \div 4096 = 13
    /\ I + (opcode % 16) > MemSize
    /\ V[15] = 1

\* the instruction words of the instruction table
Listed(w) ==
    LET fam == w \div 4096
        low == w % 16
        kk == w % 256
    IN  \/ w \in {224, 238}
        \/ fam \in {1, 2, 3, 4, 6, 7, 10, 11, 12, 13}
        \/ fam \in {5, 9} /\ low = 0
        \/ fam = 8 /\ low \in {0, 1, 2, 3, 4, 5, 6, 7, 14}
        \/ fam = 14 /\ kk \in {158, 161}
        \/ fam = 15 /\ kk \in {7, 10, 21, 24, 30, 41, 51, 85, 101}

\* C2: for every instruction word that is not a listed opcode, emulateCycle ends in an
\* error (it never returns successfully), with PC, registers, I, stack, memory,
\* framebuffer and timers untouched.
C2_UnlistedWordIsRejected ==
    [][(CycleRan /\ FetchInBounds /\ ~Listed(Fetch)) =>
          /\ hostPc' = "cleanup"
          /\ lastError' # "none"
          /\ UNCHANGED <<pc, I, sp, stack, V, memory, delay_timer, sound_timer,
                         gfx, drawFlag, key>>]_vars

\* C3: after loading and any number of successful cycles, PC at the start of the next
\* fetch is even and lies in [0x200, 4094].
C3_PcEvenAndInProgramArea ==
    hostPc = "cycle" => (pc % 2 = 0 /\ pc >= ProgStart /\ pc <= MemSize - 2)

\* C4: the stack pointer is in [0,16] in every reachable state; a 2NNN with fewer than
\* 16 open calls succeeds and pushes, a 2NNN with 16 open calls fails with the
\* overflow error, a 00EE on an empty stack fails with the underflow error, and a
\* failing call or return leaves the stack pointer and the stack unchanged.
C4_StackDiscipline ==
    /\ [](sp \in 0..StackSize)
    /\ [][/\ (Executes(2) /\ sp < StackSize) =>
                (hostPc' = "frame" /\ sp' = sp + 1 /\ stack'[sp] = pc)
          /\ (Executes(2) /\ sp = StackSize) =>
                (hostPc' = "cleanup" /\ lastError' = "overflow_error"
                 /\ UNCHANGED <<sp, stack>>)
          /\ (Executes(0) /\ LowNibble = 14 /\ sp = 0) =>
                (hostPc' = "cleanup" /\ lastError' = "underflow_error"
                 /\ UNCHANGED <<sp, stack>>)
          /\ (Executes(0) /\ LowNibble = 14 /\ sp > 0) =>
                (hostPc' = "frame" /\ sp' = sp - 1 /\ stack' = stack)]_vars

\* C4 witness: sixteen nested calls are open and the seventeenth has failed
C4_Witness ==
    /\ sp = StackSize
    /\ Len(callTrace) = StackSize
    /\ lastError = "overflow_error"
    /\ opcode \div 4096 = 2

\* C5: a 00EE returns to the address following the CALL it matches (the most recent
\* call that has not returned yet) and restores the stack pointer that CALL found.
C5_ReturnMatchesCall ==
    [][(Executes(0) /\ LowNibble = 14 /\ hostPc' = "frame") =>
          /\ Len(callTrace) > 0
          /\ pc' = callTrace[Len(callTrace)][1] + 2
          /\ sp' = callTrace[Len(callTrace)][2]]_vars

\* C5 witness: an inner subroutine has returned into its caller, itself a subroutine,
\* at the word after the inner CALL
C5_Witness ==
    /\ hostPc = "frame"
    /\ opcode = 238
    /\ sp = 1
    /\ Len(callTrace) = 1
    /\ pc = stack[1] + 2
    /\ stack[1] # stack[0]

\* C6: a cycle that decodes FX0A with no key pressed changes none of PC, registers, I,
\* stack, memory, framebuffer, dirty flag and timers; with a key pressed it stores the
\* lowest pressed key index (0..15) in Vx and advances PC by 2.
C6_KeyWait ==
    [][(Executes(15) /\ KK = 10) =>
          IF \A i \in 0..(NumKeys - 1) : key[i] = 0
          THEN /\ hostPc' = "frame"
               /\ UNCHANGED <<pc, V, I, sp, stack, memory, gfx, drawFlag,
                              delay_timer, sound_timer, key>>
          ELSE /\ hostPc' = "frame"
               /\ pc' = pc + 2
               /\ V'[X] \in 0..(NumKeys - 1)
               /\ key[V'[X]] # 0
               /\ \A j \in 0..(NumKeys - 1) : key[j] # 0 => V'[X] <= j
               /\ \A r \in 0..(NumRegs - 1) : r # X => V'[r] = V[r]]_vars

\* C6 witness: two keys are down and the waiting FX0A has taken the lower one
C6_Witness ==
    /\ hostPc = "frame"
    /\ opcode \div 4096 = 15 /\ opcode % 256 = 10
    /\ Cardinality({i \in 0..(NumKeys - 1) : key[i] # 0}) >= 2
    /\ V[(opcode % 4096) \div 256] = 0
    /\ key[0] # 0
    /\ memory[pc - 2] * 256 + memory[pc - 1] = opcode

WritesDelay == Family = 15 /\ KK = 21
WritesSound == Family = 15 /\ KK = 24
Floor0(t) == IF t - 1 > 0 THEN t - 1 ELSE 0

\* C7 (as stated): every cycle that returns without error, a re-polling FX0A
\* included, leaves each timer the instruction did not write at max(old - 1, 0).
C7_EveryCycleTicks ==
    [][CycleReturned =>
          /\ (~WritesDelay => delay_timer' = Floor0(delay_timer))
          /\ (~WritesSound => sound_timer' = Floor0(sound_timer))]_vars

\* C7 (amended): every cycle that returns without error, except an FX0A that finds no
\* key pressed (which leaves both timers unchanged), leaves each timer the instruction
\* did not write at max(old - 1, 0); the timers stay within 0..255.
C7_CycleTicksUnlessWaiting ==
    /\ [](delay_timer \in 0..255 /\ sound_timer \in 0..255)
    /\ [][CycleReturned =>
            IF Family = 15 /\ KK = 10 /\ (\A i \in 0..(NumKeys - 1) : key[i] = 0)
            THEN UNCHANGED <<delay_timer, sound_timer>>
            ELSE /\ (~WritesDelay => delay_timer' = Floor0(delay_timer))
                 /\ (~WritesSound => sound_timer' = Floor0(sound_timer))]_vars

\* C7 witness: FX18 has just set the sound timer, and the same cycle has taken the
\* delay timer, which it did not write, from 2 down to 1
C7_Witness ==
    /\ hostPc = "frame"
    /\ opcode \div 4096 = 15 /\ opcode % 256 = 24
    /\ delay_timer = 1
    /\ sound_timer = 2

\* C8: 8xy4 with x in 0..14 and any y leaves VF = 1 if Vx + Vy > 255 and 0 otherwise,
\* and Vx = (Vx + Vy) mod 256, for the values held before the cycle.
C8_AddCarry ==
    [][(Executes(8) /\ LowNibble = 4 /\ X <= 14) =>
          /\ V'[15] = (IF V[X] + V[Y] > 255 THEN 1 ELSE 0)
          /\ V'[X] = (V[X] + V[Y]) % 256]_vars

\* C9: 8xy5 with x in 0..14 and any y leaves VF = 1 if Vx >= Vy and 0 otherwise, and
\* Vx = (Vx - Vy) mod 256, for the values held before the cycle.
C9_SubBorrow ==
    [][(Executes(8) /\ LowNibble = 5 /\ X <= 14) =>
          /\ V'[15] = (IF V[X] >= V[Y] THEN 1 ELSE 0)
          /\ V'[X] = (V[X] - V[Y] + 256) % 256]_vars

\* this cycle executes the DXYN of the previous cycle again: same word, same I, same
\* sprite bytes, same coordinates
RepeatsLastDraw ==
    /\ Executes(13)
    /\ hostPc' = "frame"
    /\ lastDraw.op = Fetch
    /\ lastDraw.I = I
    /\ lastDraw.xpos = V[X]
    /\ lastDraw.ypos = V[Y]
    /\ lastDraw.sprite = SpriteBytes(memory, I, LowNibble)

\* C10 (as stated): the second of two identical DXYN in a row leaves the framebuffer as
\* it was before the first, and VF = 1.
C10_RedrawRestoresAndCollides ==
    [][RepeatsLastDraw => (gfx' = lastDraw.gfx /\ V'[15] = 1)]_vars

\* C10 (amended): the second of two identical DXYN in a row leaves the framebuffer as
\* it was before the first; VF = 1 after it if the first draw switched at least one
\* pixel on, and VF = 0 otherwise.
C10_RedrawRestores ==
    [][RepeatsLastDraw =>
          /\ gfx' = lastDraw.gfx
          /\ V'[15] = (IF \E i \in 0..(GfxSize - 1) : lastDraw.gfx[i] = 0 /\ gfx[i] = 1
                       THEN 1 ELSE 0)]_vars

\* C10 witness: the DXYN just executed found lit pixels, collided, and left the screen
\* blank again
C10_Witness ==
    /\ hostPc = "frame"
    /\ lastDraw.op = opcode
    /\ opcode % 16 > 0
    /\ V[15] = 1
    /\ \E i \in 0..(GfxSize - 1) : lastDraw.gfx[i] = 1
    /\ \A i \in 0..(GfxSize - 1) : gfx[i] = 0

\* C11: FX33 with I + 2 <= 4095 returns having written three decimal digits d2, d1, d0
\* of Vx (each in 0..9, 100*d2 + 10*d1 + d0 = Vx) to memory[I], memory[I+1],
\* memory[I+2], with every other byte of memory and I unchanged; this holds of the
\* store for every v in 0..255; with I + 2 >= 4096 the cycle throws and memory is
\* unchanged.
BcdDigits(mem, i, v) ==
    /\ mem[i] \in 0..9 /\ mem[i + 1] \in 0..9 /\ mem[i + 2] \in 0..9
    /\ (100 * mem[i]) + (10 * mem[i + 1]) + mem[i + 2] = v

C11_Bcd ==
    [][(Executes(15) /\ KK = 51) =>
         IF I + 2 <= MemSize - 1
         THEN /\ CycleReturned
              /\ I' = I
              /\ BcdDigits(memory', I, V[X])
              /\ \A a \in (0..(MemSize - 1)) \ {I, I + 1, I + 2} : memory'[a] = memory[a]
              /\ \A v \in 0..255 : BcdDigits(StoreBcd(memory, I, v), I, v)
         ELSE CycleThrew /\ memory' = memory /\ I' = I]_vars

\* FX33 has stored 255 as 2, 5, 5 in the last three bytes of memory
C11_Witness ==
    /\ hostPc = "frame"
    /\ opcode \div 4096 = 15 /\ opcode % 256 = 51
    /\ V[(opcode \div 256) % 16] = 255
    /\ I = MemSize - 3
    /\ memory[I] = 2 /\ memory[I + 1] = 5 /\ memory[I + 2] = 5

\* C12: a loadGame call that opened a file fails when the file is empty or longer
\* than 4096 - 0x200 = 3584 bytes, in both cases with memory unchanged; for a length
\* in 1..3584 it succeeds with exactly the file's bytes at memory[0x200 ..
\* 0x200+len-1] and every other byte, the bytes below 0x200 included, unchanged.
LoadReturned == hostPc = "load" /\ hostPc' # "load" /\ romFile' # NoFile

C12_LoadGameLengths ==
    [][LoadReturned =>
         LET len == Len(romFile') IN
         IF len = 0 \/ len > MaxRomBytes
         THEN hostPc' = "exit" /\ lastError' # "none" /\ memory' = memory
         ELSE /\ hostPc' = "cycle"
              /\ \A a \in 0..(MemSize - 1) :
                     memory'[a] = IF a >= ProgStart /\ a < ProgStart + len
                                  THEN romFile'[a - ProgStart + 1]
                                  ELSE memory[a]]_vars

\* C13: the 80 glyph bytes at memory[0x000..0x04F] always equal the font table.
C13_FontNeverChanges ==
    \A a \in 0..(FontBytes - 1) : memory[a] = CHIP8_FONTSET[a + 1]

\* C14: a cycle that executes 00E0 returns with all 2048 cells of gfx 0 and drawFlag
\* true, and every cycle that returns having changed a cell of gfx returns with
\* drawFlag true.
C14_ChangedDisplayIsDirty ==
    [][/\ (CycleRan /\ FetchInBounds /\ Fetch = 224) =>
              /\ CycleReturned
              /\ \A c \in 0..(GfxSize - 1) : gfx'[c] = 0
              /\ drawFlag'
       /\ (CycleReturned /\ gfx' # gfx) => drawFlag']_vars

\* C15: loading the same bytes a second time right after the first load leaves the
\* machine (memory, PC, I, registers, stack, timers, framebuffer, keys, dirty flag)
\* exactly as the first load left it, so initialize(); loadGame(bytes) and
\* initialize(); loadGame(bytes); loadGame(bytes) end in the same state.
C15_SecondLoadChangesNothing ==
    [][(hostPc = "load" /\ loads >= 1 /\ hostPc' # "load" /\ romFile' = romFile) =>
         /\ machine' = machine
         /\ hostPc' = "cycle"]_vars

\* a program filling the whole program area has been loaded twice in a row
C15_Witness ==
    /\ hostPc = "cycle"
    /\ loads >= 1
    /\ Len(romFile) = MaxRomBytes
    /\ memory[ProgStart] = romFile[1] /\ memory[ProgStart] # 0
    /\ memory[MemSize - 1] = romFile[MaxRomBytes]
    /\ pc = ProgStart

\* C16: the load that follows a reload request hands the emulation loop a machine
\* in the state of initialize() followed by loadGame(rom): pc = 0x200, sp = 0, all
\* registers, I, both timers and the framebuffer zero, and memory from 0x200 on
\* holding the bytes of the loaded file followed by zeros.
C16_ReloadStartsFresh ==
    [][(hostPc = "load" /\ hostPc' = "cycle") =>
         /\ pc' = ProgStart /\ sp' = 0 /\ I' = 0
         /\ \A r \in 0..(NumRegs - 1) : V'[r] = 0
         /\ delay_timer' = 0 /\ sound_timer' = 0
         /\ \A c \in 0..(GfxSize - 1) : gfx'[c] = 0
         /\ \A a \in ProgStart..(MemSize - 1) :
                memory'[a] = IF a < ProgStart + Len(romFile')
                             THEN romFile'[a - ProgStart + 1] ELSE 0]_vars

\* C17: a DXYN that returns changes a framebuffer cell only if it is the cell
\* (Vx + c) + (Vy + r)*64 of a set sprite bit (row r in 0..n-1, column c in 0..7)
\* with Vx + c < 64 and Vy + r < 32, and reports a collision only for such a cell;
\* a set bit whose column Vx + c is 64 or more changes nothing.
OnScreenCells ==
    {(V[X] + q[2]) + ((V[Y] + q[1]) * GfxWidth) :
        q \in {p \in (0..(LowNibble - 1)) \X (0..7) :
                  /\ SpriteBit(memory[I + p[1]], p[2]) = 1
                  /\ V[X] + p[2] < GfxWidth
                  /\ V[Y] + p[1] < GfxSize \div GfxWidth}}

C17_DrawClipsOffScreen ==
    [][(Executes(13) /\ CycleReturned) =>
         /\ \A c \in 0..(GfxSize - 1) : gfx'[c] # gfx[c] => c \in OnScreenCells
         /\ V'[15] = 1 => \E c \in OnScreenCells : gfx[c] = 1]_vars

\* C18: in family 0x0 only the word 0x00E0 clears the framebuffer and only the word
\* 0x00EE pops the call stack; a cycle that fetches any other word 0x0nnn ends in
\* an error with the framebuffer, the stack, sp and pc unchanged.
C18_FamilyZeroExact ==
    [][(Executes(0) /\ Fetch \notin {224, 238}) =>
         /\ CycleThrew
         /\ gfx' = gfx /\ stack' = stack /\ sp' = sp /\ pc' = pc]_vars

\* C19: I is within 0..4095 in every reachable state; only ANNN, FX1E and FX29
\* change I; FX1E throws and leaves I unchanged when I + Vx >= 4096 and otherwise
\* adds Vx to I; FX29 throws and leaves I unchanged when Vx > 0xF; FX33, FX55, FX65
\* and DXYN leave I unchanged.
WritesIndex == FetchInBounds /\ (Family = 10 \/ (Family = 15 /\ KK \in {30, 41}))

C19_IndexInRange ==
    /\ [](I \in 0..(MemSize - 1))
    /\ [][/\ I' # I => CycleReturned /\ WritesIndex
          /\ (Executes(15) /\ KK = 30) =>
                 IF I + V[X] >= MemSize
                 THEN CycleThrew /\ I' = I
                 ELSE CycleReturned /\ I' = I + V[X]
          /\ (Executes(15) /\ KK = 41 /\ V[X] > 15) => CycleThrew /\ I' = I
          /\ (Executes(13) \/ (Executes(15) /\ KK \in {51, 85, 101})) => I' = I]_vars

\* FX1E has refused to move I to 4096: I = 0xF01, Vx = 255, the cycle threw
C19_Witness ==
    /\ hostPc = "cleanup" /\ lastError = "out_of_range"
    /\ opcode \div 4096 = 15 /\ opcode % 256 = 30
    /\ I + V[(opcode \div 256) % 16] = MemSize
    /\ I = MemSize - 255

\* C20: EX9E and EXA1 read the key array only at an index in 0..15: a cycle that
\* executes one of them with Vx outside 0..15 does not return a skip decision (it
\* ends in an error before the read).
C20_KeyIndexInBounds ==
    [][(Executes(14) /\ KK \in {158, 161} /\ CycleReturned) => V[X] \in 0..(NumKeys - 1)]_vars

\* ------------------------------------------------------------------ accesses
\* the indices at which the cycle about to run subscripts memory, gfx and stack
\* opcode = (memory[pc] << 8) | memory[pc + 1]
FetchAddrs == {pc, pc + 1}

\* pixel = memory[I + yline], yline < height
SpriteAddrs == {I + yline : yline \in 0..(LowNibble - 1)}

\* memory[I], memory[I + 1], memory[I + 2]
BcdAddrs == {I, I + 1, I + 2}

\* memory[I + i], i <= x
RegsAddrs == {I + i : i \in 0..X}

OperandAddrs ==
    IF Family = 13 THEN SpriteAddrs
    ELSE IF Family = 15 /\ KK = 51 THEN BcdAddrs
    ELSE IF Family = 15 /\ KK \in {85, 101} THEN RegsAddrs
    ELSE {}

\* memset(gfx, 0, sizeof(gfx)) for the words run as 00E0; gfx[gfxIndex] in DXYN
GfxCells ==
    IF Family = 0 /\ LowNibble = 0 THEN 0..(GfxSize - 1)
    ELSE IF Family = 13 THEN DrawnCells(memory, I, LowNibble, V[X], V[Y])
    ELSE {}

\* stack[sp] = pc in 2NNN, stack[--sp] in the words run as 00EE
StackSlots ==
    IF Family = 2 THEN {sp}
    ELSE IF Family = 0 /\ LowNibble = 14 THEN {sp - 1}
    ELSE {}

\* C21: every access of a cycle that returns is in bounds: the fetch reads
\* memory[pc] and memory[pc+1] within 0..4095, DXYN reads memory[I..I+n-1]
\* within 0..4095 and touches only framebuffer cells in 0..2047, FX33 touches only
\* memory[I..I+2] and FX55/FX65 only memory[I..I+x] within 0..4095, and 2NNN and
\* 00EE index the stack only at 0..15.
C21_AccessesInBounds ==
    [][CycleReturned =>
         /\ FetchAddrs \subseteq 0..(MemSize - 1)
         /\ OperandAddrs \subseteq 0..(MemSize - 1)
         /\ GfxCells \subseteq 0..(GfxSize - 1)
         /\ StackSlots \subseteq 0..(StackSize - 1)
         /\ memory' # memory =>
                \A a \in (0..(MemSize - 1)) \ OperandAddrs : memory'[a] = memory[a]]_vars

\* FX55 has stored V0..VF in the last 16 bytes of memory, memory[0xFFF] included
C21_Witness ==
    /\ hostPc = "frame"
    /\ opcode = 65365
    /\ I + 15 = MemSize - 1
    /\ memory[I] = 7 /\ memory[I + 1] = 9
    /\ memory[I] = V[0] /\ memory[I + 1] = V[1]

====
